---- MODULE Spec2Model ----
(***************************************************************************)
(* A model of the LibreX browser shell (src/browser.py): the tab           *)
(* container, the URL bar, the navigation worker tasks with their          *)
(* navigation ids, the shared progress indicator and the config loaders.   *)
(*                                                                         *)
(* Strings are sequences of one-character strings, so that strip(),        *)
(* lower(), startswith(), split() and QUrl's parsing are computed the way  *)
(* the code computes them.                                                 *)
(***************************************************************************)
EXTENDS Integers, Sequences, FiniteSets, TLC

(***************************************************************************)
(* Bounds of the model.                                                    *)
(***************************************************************************)
\* views ever created (tabs opened) in one run
MaxViews == 2
\* URL-bar submissions in one run
MaxNav == 2
\* pending single-shot hide timers
MaxTimers == 1
\* characters typed after the scheme prefix of an exhaustively drawn input
MaxBody == 3
\* lines of one config file
MaxLines == 2
\* characters of a page title
MaxTitle == 20

(***************************************************************************)
(* Characters and Python's str methods.                                    *)
(***************************************************************************)
LowerLetters ==
    {"a","b","c","d","e","f","g","h","i","j","k","l","m",
     "n","o","p","q","r","s","t","u","v","w","x","y","z"}

UpperLetters == {"C","F","H","P","S","T"}

Digits == {"0","1","2","3","4","5","6","7","8","9"}

Whitespace == {" "}

\* str.lower() on one character
LowerChar(c) ==
    CASE c = "C" -> "c"
      [] c = "F" -> "f"
      [] c = "H" -> "h"
      [] c = "P" -> "p"
      [] c = "S" -> "s"
      [] c = "T" -> "t"
      [] OTHER -> c

\* str.lower()
Lower(s) == [i \in 1..Len(s) |-> LowerChar(s[i])]

RECURSIVE FirstNotIn(_, _, _)
\* the first index from i on whose character is not in cs; 0 when there is none
FirstNotIn(s, cs, i) ==
    IF i > Len(s) THEN 0
    ELSE IF s[i] \notin cs THEN i
    ELSE FirstNotIn(s, cs, i + 1)

RECURSIVE LastNotIn(_, _, _)
\* the last index up to i whose character is not in cs; 0 when there is none
LastNotIn(s, cs, i) ==
    IF i < 1 THEN 0
    ELSE IF s[i] \notin cs THEN i
    ELSE LastNotIn(s, cs, i - 1)

\* str.strip(): leading and trailing whitespace removed
Strip(s) ==
    IF FirstNotIn(s, Whitespace, 1) = 0 THEN <<>>
    ELSE SubSeq(s, FirstNotIn(s, Whitespace, 1), LastNotIn(s, Whitespace, Len(s)))

\* str.startswith(p)
StartsWith(s, p) == Len(s) >= Len(p) /\ SubSeq(s, 1, Len(p)) = p

\* c in s
Contains(s, c) == \E i \in 1..Len(s) : s[i] = c

RECURSIVE FindFrom(_, _, _)
\* the first index from i on whose character is in cs; 0 when there is none
FindFrom(s, cs, i) ==
    IF i > Len(s) THEN 0
    ELSE IF s[i] \in cs THEN i
    ELSE FindFrom(s, cs, i + 1)

\* s.find(c) for a set of characters, 1-based; 0 when absent
FindAny(s, cs) == FindFrom(s, cs, 1)

RECURSIVE RFindFrom(_, _, _)
\* the last index up to i whose character is c; 0 when there is none
RFindFrom(s, c, i) ==
    IF i < 1 THEN 0
    ELSE IF s[i] = c THEN i
    ELSE RFindFrom(s, c, i - 1)

\* s.rfind(c), 1-based; 0 when absent
RFind(s, c) == RFindFrom(s, c, Len(s))

\* s[i:] with a 1-based i
From(s, i) == SubSeq(s, i, Len(s))

\* s[:i] exclusive, with a 1-based i
Upto(s, i) == SubSeq(s, 1, i - 1)

(***************************************************************************)
(* String constants of the program.                                        *)
(***************************************************************************)
HttpPrefix == <<"h","t","t","p",":","/","/">>

HttpsPrefix == <<"h","t","t","p","s",":","/","/">>

\* "https://duckduckgo.com"
DuckDuckGo ==
    <<"h","t","t","p","s",":","/","/","d","u","c","k","d","u","c","k","g","o",
      ".","c","o","m">>

\* "/?q="
DefaultSearchPath == <<"/","?","q","=">>

\* "New Tab": new_tab's default label, line 287
NewTabLabel ==
    <<"N","e","w"," ","T","a","b">>

\* "favicon": the key of the favicon path, line 154
FaviconKey ==
    <<"f","a","v","i","c","o","n">>

\* "browser/assets/icons/favicons/favicon.ico": the hardcoded favicon path, lines 154 and 157
DefaultFavicon ==
    <<"b","r","o","w","s","e","r","/","a","s","s","e","t","s","/","i","c","o",
      "n","s","/","f","a","v","i","c","o","n","s","/","f","a","v","i","c","o",
      "n",".","i","c","o">>

\* "default_search_engine": the key of the search engine base URL, line 159
SearchEngineKey ==
    <<"d","e","f","a","u","l","t","_","s","e","a","r","c","h","_","e","n","g",
      "i","n","e">>

\* "default_search_engine_search_path": the key of the search path, line 164
SearchPathKey ==
    <<"d","e","f","a","u","l","t","_","s","e","a","r","c","h","_","e","n","g",
      "i","n","e","_","s","e","a","r","c","h","_","p","a","t","h">>

\* "new_tab": the key of the new-tab shortcut, line 178
NewTabKey ==
    <<"n","e","w","_","t","a","b">>

\* "close_tab": the key of the close-tab shortcut, line 183
CloseTabKey ==
    <<"c","l","o","s","e","_","t","a","b">>

\* "close_browser": the key of the close-window shortcut, line 188
CloseBrowserKey ==
    <<"c","l","o","s","e","_","b","r","o","w","s","e","r">>

\* "Ctrl+T": the hardcoded new-tab shortcut, line 178
CtrlT ==
    <<"C","t","r","l","+","T">>

\* "Ctrl+W": the hardcoded close-tab shortcut, line 183
CtrlW ==
    <<"C","t","r","l","+","W">>

\* "Ctrl+Shift+W": the hardcoded close-window shortcut, line 188
CtrlShiftW ==
    <<"C","t","r","l","+","S","h","i","f","t","+","W">>

(***************************************************************************)
(* QUrl(str): Qt's tolerant parse, reduced to what NavigationTask.run      *)
(* reads: isValid(), scheme() and the text of the URL.                     *)
(***************************************************************************)
SchemeChars == LowerLetters \cup UpperLetters \cup Digits \cup {"+", "-", "."}

\* the first ':' that precedes any '?' or '#': where a scheme would end
SchemeColon(s) ==
    LET k == FindAny(s, {":", "?", "#"})
    IN  IF k > 0 /\ s[k] = ":" THEN k ELSE 0

\* where the scheme of s ends: the place of its ':' when the text before it
\* is ALPHA *(ALPHA / DIGIT / "+" / "-" / "."), and 0 when s has no scheme.
\* (The bound k holds the place computed once.)
SchemeEnd(s) ==
    CHOOSE r \in
        { IF /\ k > 1
             /\ s[1] \in LowerLetters \cup UpperLetters
             /\ \A i \in 1..(k - 1) : s[i] \in SchemeChars
          THEN k ELSE 0 : k \in {SchemeColon(s)} } : TRUE

\* whether s starts with a scheme
HasScheme(s) == SchemeEnd(s) > 0

\* a registered name: no space, no ':', no empty label but a trailing one
HostValid(h) ==
    /\ \A i \in 1..Len(h) : h[i] \notin Whitespace \cup {":"}
    /\ \A i \in 1..Len(h) : h[i] = "." => (i > 1 /\ h[i - 1] # ".")

\* a port is empty or all digits
PortValid(p) == \A i \in 1..Len(p) : p[i] \in Digits

\* host[:port]: the port follows the last ':'
AuthorityValid(a) ==
    LET k == RFind(a, ":")
    IN  IF k = 0 THEN HostValid(a)
        ELSE HostValid(Upto(a, k)) /\ PortValid(From(a, k + 1))

\* the QUrl of the text s whose scheme ends at k
QUrlParsed(s, k) ==
    LET sch  == k > 0
        rest == IF sch THEN From(s, k + 1) ELSE s
        auth == StartsWith(rest, <<"/", "/">>)
        body == IF auth THEN From(rest, 3) ELSE rest
        e    == FindAny(body, {"/", "?", "#"})
        a    == IF ~auth THEN <<>> ELSE IF e = 0 THEN body ELSE Upto(body, e)
        tail == IF ~auth THEN rest ELSE IF e = 0 THEN <<>> ELSE From(body, e)
        seg  == IF e = 0 THEN body ELSE Upto(body, e)
        ok   == /\ s # <<>>
                /\ auth => AuthorityValid(a)
                \* a relative reference whose first segment holds a ':'
                /\ (~sch /\ ~auth) => ~Contains(seg, ":")
    IN  [valid  |-> ok,
         scheme |-> IF ok /\ sch THEN Lower(Upto(s, k)) ELSE <<>>,
         text   |-> IF ~ok THEN <<>>
                    ELSE (IF sch THEN Lower(Upto(s, k)) \o <<":">> ELSE <<>>)
                         \o (IF auth THEN <<"/", "/">> \o Lower(a) ELSE <<>>)
                         \o tail]

\* QUrl(str): invalid URLs have no scheme and an empty text.  (The bound s and
\* k hold the text and the end of its scheme, each computed once.)
QUrl(str) ==
    CHOOSE u \in {QUrlParsed(s, k) : s \in {str}, k \in {SchemeEnd(str)}} : TRUE

\* QUrl.toString()
toString(u) == u.text

(***************************************************************************)
(* The state of the program.                                               *)
(***************************************************************************)
VARIABLES
    default_search_engine,             \* module global, line 159
    default_search_engine_search_path, \* module global, line 164
    window_open,            \* the main window has not been closed
    closed_by,              \* the handler that closed it; "" while it is open
    tabs,                   \* tab_widget: the views in tab order
    cur,                    \* tab_widget.currentIndex(), 1-based; 0: none
    url,                    \* url[v]: the text of view v's url()
    loading,                \* loading[v]: view v is between loadStarted and loadFinished
    label,                  \* label[v]: tab_widget.tabText of the tab of view v
    title,                  \* update_tab_title: the page title it read last
    truncated_title,        \* update_tab_title: what truncate_title returned last
    url_bar,                \* url_bar.text()
    progress_visible,       \* progress_bar.isVisible()
    progress_value,         \* progress_bar.value()
    hide_timers,            \* pending QTimer.singleShot(500, progress_bar.hide)
    current_navigation_id,  \* Browser.current_navigation_id
    tasks,                  \* every NavigationTask created, in creation order
    emitted,                \* every signal emitted by a task, in emission order
    ndelivered,             \* how many of them the UI thread has handled
    cfg_file,               \* the config file a loader is given: NoFile or File(lines)
    cfg_map,                \* the map a config loader returned
    cfg_pc,                 \* "start" before the loader ran, "loaded" after
    config_files,           \* the three config files on disk, by setting
    startup_pc,             \* how far the start of the program has come
    browser_favicon_path,   \* module global, line 154
    shortcuts,              \* module global, line 169
    new_tab_shortcut,       \* key sequence of Browser.new_tab_shortcut
    close_tab_shortcut,     \* key sequence of Browser.close_tab_shortcut
    close_browser_shortcut, \* key sequence of Browser.close_browser_shortcut
    blank_submit            \* history: <<len(tasks), ndelivered>> at the latest
                            \* return of line 397; <<>> before the first

vars ==
    <<default_search_engine, default_search_engine_search_path, window_open,
      closed_by, tabs, cur, url, loading, label, title, truncated_title, url_bar,
      progress_visible,
      progress_value, hide_timers, current_navigation_id, tasks, emitted,
      ndelivered, cfg_file, cfg_map, cfg_pc, config_files, startup_pc,
      browser_favicon_path, shortcuts, new_tab_shortcut, close_tab_shortcut,
      close_browser_shortcut, blank_submit>>

globals == <<default_search_engine, default_search_engine_search_path>>

window_vars == <<window_open, closed_by>>

title_vars == <<title, truncated_title>>

tab_vars == <<tabs, cur, url, loading, label, title_vars>>

progress_vars == <<progress_visible, progress_value, hide_timers>>

nav_vars == <<current_navigation_id, tasks, emitted, ndelivered>>

cfg_vars == <<cfg_file, cfg_map, cfg_pc>>

shortcut_vars == <<new_tab_shortcut, close_tab_shortcut, close_browser_shortcut>>

startup_vars ==
    <<config_files, startup_pc, browser_favicon_path, shortcuts, shortcut_vars>>

\* os.path.exists(file_path) is False
NoFile == [exists |-> FALSE, lines |-> <<>>]

\* a file that exists, with its lines
File(lines) == [exists |-> TRUE, lines |-> lines]

EmptyMap == [k \in {} |-> <<>>]

\* tab_widget.currentWidget(): the focused view, 0 when there is none
currentWidget == IF cur >= 1 /\ cur <= Len(tabs) THEN tabs[cur] ELSE 0

(***************************************************************************)
(* Navigation: on_url_entered, NavigationTask.run and the two slots.       *)
(***************************************************************************)
\* on_url_entered, lines 402-404: the string handed to the task
PrefixedInput(user_input) ==
    IF /\ ~StartsWith(Lower(user_input), HttpPrefix)
       /\ ~StartsWith(Lower(user_input), HttpsPrefix)
       /\ Contains(user_input, ".")
    THEN HttpsPrefix \o user_input
    ELSE user_input

\* the task with the search path left out of the search URL
TaskUrlWithoutPath(url_str, engine, path) ==
    LET u == QUrl(url_str)
    IN  IF ~u.valid \/ u.scheme = <<>>
        THEN QUrl(engine \o url_str)
        ELSE u

\* NavigationTask.run, lines 134-148: the QUrl the task emits for url_str
TaskUrl(url_str, engine, path) ==
    LET u == QUrl(url_str)
    IN  IF ~u.valid \/ u.scheme = <<>>
        THEN QUrl(engine \o path \o url_str)
        ELSE u

\* on_url_entered without line 399: the id is not incremented
on_url_entered_no_increment ==
    LET user_input == Strip(url_bar)
    IN  /\ window_open
        /\ user_input # <<>>
        /\ Len(tasks) < MaxNav
        /\ current_navigation_id' = current_navigation_id
        /\ tasks' = Append(tasks, [url_str |-> PrefixedInput(user_input),
                                   nav_id  |-> current_navigation_id,
                                   done    |-> FALSE])
        /\ UNCHANGED <<globals, window_vars, tab_vars, url_bar, progress_vars,
                       emitted, ndelivered, cfg_vars, startup_vars,
                       blank_submit>>

\* on_url_entered, lines 388-417: the return key in the URL bar
on_url_entered ==
    LET user_input == Strip(url_bar)
    IN  /\ window_open
        /\ user_input # <<>>
        /\ current_navigation_id < MaxNav
        /\ current_navigation_id' = current_navigation_id + 1
        /\ tasks' = Append(tasks, [url_str |-> PrefixedInput(user_input),
                                   nav_id  |-> current_navigation_id + 1,
                                   done    |-> FALSE])
        /\ UNCHANGED <<globals, window_vars, tab_vars, url_bar, progress_vars,
                       emitted, ndelivered, cfg_vars, startup_vars,
                       blank_submit>>

\* the blank return taken after line 399: the id is incremented and no task
\* is started
on_url_entered_empty_superseding ==
    /\ window_open
    /\ Strip(url_bar) = <<>>
    /\ current_navigation_id < MaxNav
    /\ current_navigation_id' = current_navigation_id + 1
    /\ blank_submit' = <<Len(tasks), ndelivered>>
    /\ UNCHANGED <<globals, window_vars, tab_vars, url_bar, progress_vars,
                   tasks, emitted, ndelivered, cfg_vars, startup_vars>>

\* the return key in an empty or blank URL bar: lines 396-397 return
on_url_entered_empty ==
    /\ window_open
    /\ Strip(url_bar) = <<>>
    /\ blank_submit' = <<Len(tasks), ndelivered>>
    /\ UNCHANGED <<globals, window_vars, tab_vars, url_bar, progress_vars,
                   nav_vars, cfg_vars, startup_vars>>

\* run falling through to the outer except after the result was emitted: both
\* signals are emitted
NavigationTask_run_both(i) ==
    /\ i \in 1..Len(tasks)
    /\ ~tasks[i].done
    /\ tasks' = [tasks EXCEPT ![i].done = TRUE]
    /\ emitted' = emitted \o
            << [kind   |-> "result",
                url    |-> TaskUrl(tasks[i].url_str, default_search_engine,
                                  default_search_engine_search_path),
                nav_id |-> tasks[i].nav_id],
               [kind |-> "error", url |-> QUrl(<<>>), nav_id |-> tasks[i].nav_id] >>
    /\ UNCHANGED <<globals, window_vars, tab_vars, url_bar, progress_vars,
                   current_navigation_id, ndelivered, cfg_vars, startup_vars,
                   blank_submit>>

\* NavigationTask.run, lines 131-148: a pool thread runs task i to its result
\* signal
NavigationTask_run(i) ==
    /\ i \in 1..Len(tasks)
    /\ ~tasks[i].done
    /\ tasks' = [tasks EXCEPT ![i].done = TRUE]
    /\ emitted' = Append(emitted,
            [kind   |-> "result",
             url    |-> TaskUrl(tasks[i].url_str, default_search_engine,
                               default_search_engine_search_path),
             nav_id |-> tasks[i].nav_id])
    /\ UNCHANGED <<globals, window_vars, tab_vars, url_bar, progress_vars,
                   current_navigation_id, ndelivered, cfg_vars, startup_vars,
                   blank_submit>>

\* a pool thread runs task i and an exception is raised before the result is
\* emitted: one of the except branches (lines 135-138, 143-146, 150-152)
NavigationTask_run_raises(i) ==
    /\ i \in 1..Len(tasks)
    /\ ~tasks[i].done
    /\ tasks' = [tasks EXCEPT ![i].done = TRUE]
    /\ emitted' = Append(emitted,
            [kind |-> "error", url |-> QUrl(<<>>), nav_id |-> tasks[i].nav_id])
    /\ UNCHANGED <<globals, window_vars, tab_vars, url_bar, progress_vars,
                   current_navigation_id, ndelivered, cfg_vars, startup_vars,
                   blank_submit>>

\* the signal the UI thread handles next (queued connections are FIFO)
NextSignal == emitted[ndelivered + 1]

\* update_url_bar without the test of line 452: any view's URL is shown
update_url_bar_ungated(qurl, browser) == toString(qurl)

\* update_url_bar, lines 449-460: the text of the URL bar after it
update_url_bar(qurl, browser) ==
    IF currentWidget = browser THEN toString(qurl) ELSE url_bar

\* QWebEngineView.setUrl on view v: urlChanged is emitted when the URL differs,
\* and update_url_bar (lines 449-460) mirrors it when v is the focused view
SetUrlBarAfter(v, u) ==
    IF url[v] # toString(u) THEN update_url_bar(u, v) ELSE url_bar

\* the slot without the id check of lines 421-423: every result is applied
on_navigation_result_unchecked ==
    /\ window_open
    /\ ndelivered < Len(emitted)
    /\ NextSignal.kind = "result"
    /\ ndelivered' = ndelivered + 1
    /\ IF currentWidget = 0
       THEN UNCHANGED <<url, url_bar>>
       ELSE /\ url' = [url EXCEPT ![currentWidget] = toString(NextSignal.url)]
            /\ url_bar' = SetUrlBarAfter(currentWidget, NextSignal.url)
    /\ UNCHANGED <<globals, window_vars, tabs, cur, loading, label, title_vars,
                   progress_vars, current_navigation_id, tasks, emitted,
                   cfg_vars, startup_vars, blank_submit>>

\* the slot loading the result into the first tab, not the focused one
on_navigation_result_first_tab ==
    /\ window_open
    /\ ndelivered < Len(emitted)
    /\ NextSignal.kind = "result"
    /\ ndelivered' = ndelivered + 1
    /\ IF NextSignal.nav_id # current_navigation_id \/ Len(tabs) = 0
       THEN UNCHANGED <<url, url_bar>>
       ELSE /\ url' = [url EXCEPT ![tabs[1]] = toString(NextSignal.url)]
            /\ url_bar' = SetUrlBarAfter(tabs[1], NextSignal.url)
    /\ UNCHANGED <<globals, window_vars, tabs, cur, loading, label, title_vars,
                   progress_vars, current_navigation_id, tasks, emitted,
                   cfg_vars, startup_vars, blank_submit>>

\* the slot of a task's result signal, lines 419-444
on_navigation_result ==
    /\ window_open
    /\ ndelivered < Len(emitted)
    /\ NextSignal.kind = "result"
    /\ ndelivered' = ndelivered + 1
    /\ IF NextSignal.nav_id # current_navigation_id \/ currentWidget = 0
       THEN UNCHANGED <<url, url_bar>>
       ELSE /\ url' = [url EXCEPT ![currentWidget] = toString(NextSignal.url)]
            /\ url_bar' = SetUrlBarAfter(currentWidget, NextSignal.url)
    /\ UNCHANGED <<globals, window_vars, tabs, cur, loading, label, title_vars,
                   progress_vars, current_navigation_id, tasks, emitted,
                   cfg_vars, startup_vars, blank_submit>>

\* the slot of the error signal clearing the URL bar besides logging
on_navigation_error_clearing ==
    /\ window_open
    /\ ndelivered < Len(emitted)
    /\ NextSignal.kind = "error"
    /\ ndelivered' = ndelivered + 1
    /\ url_bar' = <<>>
    /\ UNCHANGED <<globals, window_vars, tab_vars, progress_vars,
                   current_navigation_id, tasks, emitted, cfg_vars,
                   startup_vars, blank_submit>>

\* the slot of a task's error signal: logging only
on_navigation_error ==
    /\ window_open
    /\ ndelivered < Len(emitted)
    /\ NextSignal.kind = "error"
    /\ ndelivered' = ndelivered + 1
    /\ UNCHANGED <<globals, window_vars, tab_vars, url_bar, progress_vars,
                   current_navigation_id, tasks, emitted, cfg_vars,
                   startup_vars, blank_submit>>

(***************************************************************************)
(* Tabs: new_tab, close_current_tab and the currentChanged slot.           *)
(***************************************************************************)
\* current_tab_changed leaving the URL bar as it is
UrlBarKept(ts, us, index) == url_bar

\* current_tab_changed(index), lines 367-386: the URL bar shows the URL of the
\* view at the index, and is cleared when there is none
UrlBarFor(ts, us, index) ==
    IF index >= 1 /\ index <= Len(ts) THEN us[ts[index]] ELSE <<>>

\* the argument url of new_tab when it is not given
None == <<"None">>

\* new_tab opening the default URL whatever its argument url is
Browser_new_tab_default_url(url_arg, tab_label, switch) ==
    LET v     == Len(url) + 1
        index == Len(tabs) + 1
    IN  /\ window_open
        /\ Len(url) < MaxViews
        /\ url' = Append(url, toString(QUrl(DuckDuckGo)))
        /\ loading' = Append(loading, FALSE)
        /\ label' = Append(label, tab_label)
        /\ tabs' = Append(tabs, v)
        /\ cur' = IF switch \/ Len(tabs) = 0 THEN index ELSE cur
        /\ url_bar' = IF cur' # cur THEN UrlBarFor(tabs', url', cur') ELSE url_bar
        /\ UNCHANGED <<globals, window_vars, title_vars, progress_vars,
                       nav_vars, cfg_vars, startup_vars, blank_submit>>

\* Browser.new_tab(url, label, switch), lines 287-332.  The view is created
\* and pointed at the URL (lines 303-310), then added as the last tab; the
\* first tab of an empty container becomes the current one, and
\* setCurrentIndex (line 315) makes the new tab current when switch is set;
\* currentChanged then runs current_tab_changed.
Browser_new_tab(url_arg, tab_label, switch) ==
    LET v       == Len(url) + 1
        index   == Len(tabs) + 1
        url_obj == IF url_arg = None THEN QUrl(DuckDuckGo) ELSE QUrl(url_arg)
    IN  /\ window_open
        /\ Len(url) < MaxViews
        /\ url' = Append(url, toString(url_obj))
        /\ loading' = Append(loading, FALSE)
        /\ label' = Append(label, tab_label)
        /\ tabs' = Append(tabs, v)
        /\ cur' = IF switch \/ Len(tabs) = 0 THEN index ELSE cur
        /\ url_bar' = IF cur' # cur THEN UrlBarFor(tabs', url', cur') ELSE url_bar
        /\ UNCHANGED <<globals, window_vars, title_vars, progress_vars,
                       nav_vars, cfg_vars, startup_vars, blank_submit>>

\* Browser.new_tab() as the shortcut and the plus button call it: the default
\* URL, the default label, switch = True
new_tab == Browser_new_tab(None, NewTabLabel, TRUE)

\* QTabWidget.removeTab(index): the tab order without the tab at the index
RemoveAt(ts, index) ==
    [i \in 1..(Len(ts) - 1) |-> IF i < index THEN ts[i] ELSE ts[i + 1]]

\* the current index after removeTab(index): the tab to the right of a removed
\* current tab takes its place, or the last tab when there is none
IndexAfterRemove(ts, c, index) ==
    IF index = c THEN (IF index <= Len(ts) - 1 THEN index ELSE Len(ts) - 1)
    ELSE IF index < c THEN c - 1
    ELSE c

\* close_current_tab without the count() > 1 test: the tab is always removed
close_current_tab_always_removes(index) ==
    /\ window_open
    /\ index \in 1..Len(tabs)
    /\ tabs' = RemoveAt(tabs, index)
    /\ cur' = IndexAfterRemove(tabs, cur, index)
    /\ url_bar' = IF index <= cur THEN UrlBarFor(tabs', url, cur') ELSE url_bar
    /\ UNCHANGED <<globals, window_vars, url, loading, label, title_vars,
                   progress_vars, nav_vars, cfg_vars, startup_vars,
                   blank_submit>>

\* close_current_tab removing the current tab whatever the index is
close_current_tab_ignoring_index(index) ==
    /\ window_open
    /\ index \in 1..Len(tabs)
    /\ IF Len(tabs) > 1
       THEN /\ tabs' = RemoveAt(tabs, cur)
            /\ cur' = IndexAfterRemove(tabs, cur, cur)
            /\ url_bar' = UrlBarFor(tabs', url, cur')
            /\ UNCHANGED window_vars
       ELSE /\ window_open' = FALSE
            /\ closed_by' = "close_current_tab"
            /\ UNCHANGED <<tabs, cur, url_bar>>
    /\ UNCHANGED <<globals, url, loading, label, title_vars, progress_vars,
                   nav_vars, cfg_vars, startup_vars, blank_submit>>

\* close_current_tab(index), lines 352-365
close_current_tab(index) ==
    /\ window_open
    /\ index \in 1..Len(tabs)
    /\ IF Len(tabs) > 1
       THEN /\ tabs' = RemoveAt(tabs, index)
            /\ cur' = IndexAfterRemove(tabs, cur, index)
            \* currentChanged is emitted when the current index changed
            /\ url_bar' = IF index <= cur THEN UrlBarFor(tabs', url, cur')
                          ELSE url_bar
            /\ UNCHANGED window_vars
       ELSE \* close_browser()
            /\ window_open' = FALSE
            /\ closed_by' = "close_current_tab"
            /\ UNCHANGED <<tabs, cur, url_bar>>
    /\ UNCHANGED <<globals, url, loading, label, title_vars, progress_vars,
                   nav_vars, cfg_vars, startup_vars, blank_submit>>

\* the close button of the tab at any index: tabCloseRequested(index)
tabCloseRequested == \E index \in 1..Len(tabs) : close_current_tab(index)

\* close_current_tab_index, lines 334-339: the close-tab shortcut
close_current_tab_index == close_current_tab(cur)

\* close_browser, lines 264-265: the close-window shortcut
close_browser ==
    /\ window_open
    /\ window_open' = FALSE
    /\ closed_by' = "close_browser"
    /\ UNCHANGED <<globals, tab_vars, url_bar, progress_vars, nav_vars,
                   cfg_vars, startup_vars, blank_submit>>

\* the user selects the tab at an index: currentChanged(index)
current_tab_changed(index) ==
    /\ window_open
    /\ index \in 1..Len(tabs)
    /\ index # cur
    /\ cur' = index
    /\ url_bar' = UrlBarFor(tabs, url, index)
    /\ UNCHANGED <<globals, window_vars, tabs, url, loading, label,
                   title_vars, progress_vars, nav_vars, cfg_vars,
                   startup_vars, blank_submit>>

(***************************************************************************)
(* The URL bar and the progress indicator.                                 *)
(***************************************************************************)
\* what the user types in the main window's URL bar
TypedInputs ==
    { <<" ">>,
      <<"c", "a", "t", "s">> }

\* the user edits the URL bar
textEdited(s) ==
    /\ window_open
    /\ s # url_bar
    /\ url_bar' = s
    /\ UNCHANGED <<globals, window_vars, tab_vars, progress_vars, nav_vars,
                   cfg_vars, startup_vars, blank_submit>>

\* the URLs the pages of the views move to by themselves
ChangedUrls == { <<"h","t","t","p",":","/","/","s",".","c","/","c">> }

\* view v emits urlChanged(qurl), its page having moved to the URL u: the
\* slot new_tab connected (line 321) runs safe_update_url_bar
urlChanged(v, u) ==
    /\ window_open
    /\ v \in 1..Len(url)
    /\ url[v] # toString(QUrl(u))
    /\ url' = [url EXCEPT ![v] = toString(QUrl(u))]
    /\ url_bar' = update_url_bar(QUrl(u), v)
    /\ UNCHANGED <<globals, window_vars, tabs, cur, loading, label,
                   title_vars, progress_vars, nav_vars, cfg_vars,
                   startup_vars, blank_submit>>

\* the load percentages a view reports
Percents == {50}

\* on_load_started without the sender test of line 505
on_load_started_ungated(v) ==
    /\ window_open
    /\ v \in 1..Len(url)
    /\ ~loading[v]
    /\ loading' = [loading EXCEPT ![v] = TRUE]
    /\ progress_visible' = TRUE
    /\ progress_value' = 0
    /\ UNCHANGED <<globals, window_vars, tabs, cur, url, label, title_vars,
                   url_bar, hide_timers, nav_vars, cfg_vars, startup_vars,
                   blank_submit>>

\* on_load_started, lines 502-517, for the loadStarted of view v
on_load_started(v) ==
    /\ window_open
    /\ v \in 1..Len(url)
    /\ ~loading[v]
    /\ loading' = [loading EXCEPT ![v] = TRUE]
    /\ IF v = currentWidget
       THEN /\ progress_visible' = TRUE
            /\ progress_value' = 0
       ELSE UNCHANGED <<progress_visible, progress_value>>
    /\ UNCHANGED <<globals, window_vars, tabs, cur, url, label, title_vars,
                   url_bar, hide_timers, nav_vars, cfg_vars, startup_vars,
                   blank_submit>>

\* on_load_progress, lines 519-530, for the loadProgress(progress) of view v
on_load_progress(v, progress) ==
    /\ window_open
    /\ v \in 1..Len(url)
    /\ loading[v]
    /\ IF v = currentWidget
       THEN progress_value' = progress
       ELSE UNCHANGED progress_value
    /\ UNCHANGED <<globals, window_vars, tab_vars, url_bar, progress_visible,
                   hide_timers, nav_vars, cfg_vars, startup_vars, blank_submit>>

\* truncate_title's max_length, line 462
max_length == 15

\* truncate_title cutting the title without appending the ellipsis
truncate_title_no_ellipsis(t) ==
    IF Len(t) <= max_length THEN t ELSE SubSeq(t, 1, max_length)

\* truncate_title, lines 462-467
truncate_title(t) ==
    IF Len(t) <= max_length THEN t
    ELSE SubSeq(t, 1, max_length) \o <<".", ".", ".">>

\* tab_widget.indexOf(browser): the place of the view's tab, -1 when the view
\* is in no tab
indexOf(browser) ==
    IF \E i \in 1..Len(tabs) : tabs[i] = browser
    THEN CHOOSE i \in 1..Len(tabs) : tabs[i] = browser
    ELSE -1

\* update_tab_title with a blank title set as the label, not the URL
update_tab_title_no_fallback(browser, page_title) ==
    IF indexOf(browser) = -1 THEN label
    ELSE [label EXCEPT ![browser] = truncate_title(page_title)]

\* update_tab_title, lines 469-500: the tab labels after it, page_title being
\* what browser.page().title() returns
update_tab_title(browser, page_title) ==
    IF indexOf(browser) = -1 THEN label
    ELSE IF page_title # <<>>
         THEN [label EXCEPT ![browser] = truncate_title(page_title)]
         ELSE [label EXCEPT ![browser] = url[browser]]

\* view v emits loadFinished while its page title is page_title: the two slots
\* new_tab connected run in connection order, on_load_finished (line 299,
\* lines 532-548) and then safe_update_tab_title (line 322, lines 346-350)
loadFinished(v, page_title) ==
    /\ window_open
    /\ v \in 1..Len(url)
    /\ loading[v]
    /\ v = currentWidget => hide_timers < MaxTimers
    /\ loading' = [loading EXCEPT ![v] = FALSE]
    /\ IF v = currentWidget
       THEN /\ progress_value' = 100
            /\ hide_timers' = hide_timers + 1
       ELSE UNCHANGED <<progress_value, hide_timers>>
    /\ label' = update_tab_title(v, page_title)
    /\ IF indexOf(v) = -1
       THEN UNCHANGED title_vars
       ELSE /\ title' = page_title
            /\ truncated_title' = IF page_title # <<>>
                                  THEN truncate_title(page_title)
                                  ELSE truncated_title
    /\ UNCHANGED <<globals, window_vars, tabs, cur, url, url_bar,
                   progress_visible, nav_vars, cfg_vars, startup_vars,
                   blank_submit>>

\* the titles a page has in the runs with several tabs: none, a short one and
\* one of 16 characters.  (A document's title has no leading or trailing
\* white space.)
PageTitles ==
    { <<>>,
      <<"a", "b">>,
      [i \in 1..(max_length + 1) |-> "a"] }

\* the loadFinished of view v, whatever its page title
on_load_finished(v) == \E page_title \in PageTitles : loadFinished(v, page_title)

\* a single-shot timer of on_load_finished fires: progress_bar.hide()
hide_timer_fires ==
    /\ window_open
    /\ hide_timers > 0
    /\ hide_timers' = hide_timers - 1
    /\ progress_visible' = FALSE
    /\ UNCHANGED <<globals, window_vars, tab_vars, url_bar, progress_value,
                   nav_vars, cfg_vars, startup_vars, blank_submit>>

(***************************************************************************)
(* The browser: the state after Browser.__init__ and the events.           *)
(***************************************************************************)
\* the window after Browser.__init__ with url_bar holding text
WindowInit(text) ==
    /\ window_open = TRUE
    /\ closed_by = ""
    /\ tabs = <<1>>
    /\ cur = 1
    /\ url = <<toString(QUrl(DuckDuckGo))>>
    /\ loading = <<FALSE>>
    /\ label = <<NewTabLabel>>
    /\ title = <<>>
    /\ truncated_title = <<>>
    /\ url_bar = text
    /\ progress_visible = FALSE
    /\ progress_value = -1
    /\ hide_timers = 0
    /\ current_navigation_id = 0
    /\ tasks = <<>>
    /\ emitted = <<>>
    /\ ndelivered = 0
    /\ blank_submit = <<>>

\* no config loader is running
ConfigIdle ==
    /\ cfg_file = NoFile
    /\ cfg_map = EmptyMap
    /\ cfg_pc = "loaded"

\* the three config files, none of which exists
NoConfigFiles == [favicon |-> NoFile, search_engine |-> NoFile, shortcuts |-> NoFile]

\* the program has started from the config files fs, which hold no favicon
\* and no shortcut setting: the hardcoded values of lines 154, 178, 183, 188
Started(fs) ==
    /\ config_files = fs
    /\ startup_pc = "running"
    /\ browser_favicon_path = DefaultFavicon
    /\ shortcuts = EmptyMap
    /\ new_tab_shortcut = CtrlT
    /\ close_tab_shortcut = CtrlW
    /\ close_browser_shortcut = CtrlShiftW

Init ==
    /\ default_search_engine = DuckDuckGo
    /\ default_search_engine_search_path = DefaultSearchPath
    /\ WindowInit(toString(QUrl(DuckDuckGo)))
    /\ ConfigIdle
    /\ Started(NoConfigFiles)

\* the events of the tab bar and of the window's shortcuts
TabEvent ==
    \/ new_tab
    \/ tabCloseRequested
    \/ close_current_tab_index
    \/ close_browser
    \/ \E index \in 1..Len(tabs) : current_tab_changed(index)

\* the events of the URL bar, of the worker pool and of the tasks' signals
NavEvent ==
    \/ \E s \in TypedInputs : textEdited(s)
    \/ on_url_entered
    \/ \E i \in 1..Len(tasks) : NavigationTask_run(i)
    \/ \E i \in 1..Len(tasks) : NavigationTask_run_raises(i)
    \/ on_navigation_result
    \/ on_navigation_error

\* the load signals of the views and the hide timer
LoadEvent ==
    \/ \E v \in 1..Len(url) : on_load_started(v)
    \/ \E v \in 1..Len(url), p \in Percents : on_load_progress(v, p)
    \/ \E v \in 1..Len(url) : on_load_finished(v)
    \/ hide_timer_fires

(***************************************************************************)
(* Spec: tabs and navigation.  The load handlers read only the tab state   *)
(* and write only the progress indicator, which no navigation or tab       *)
(* handler reads; they are composed with the tab events in LoadSpec.       *)
(* The return key in a blank URL bar writes nothing but the history       *)
(* variable blank_submit; it is composed with the navigation events in     *)
(* SubmitSpec.                                                             *)
(***************************************************************************)
Next == NavEvent \/ TabEvent

Spec == Init /\ [][Next]_vars

\* the worker pool runs every task it was handed
PoolFairness ==
    \A i \in 1..MaxNav :
        WF_vars(NavigationTask_run_raises(i) \/ NavigationTask_run(i))

FairSpec == Spec /\ PoolFairness

(***************************************************************************)
(* SubmitSpec: navigation with the return key pressed in a blank URL bar   *)
(* at any moment between the other events.                                 *)
(***************************************************************************)
SubmitNext == NavEvent \/ on_url_entered_empty

SubmitSpec == Init /\ [][SubmitNext]_vars

(***************************************************************************)
(* LoadSpec: tabs and the progress indicator.                              *)
(***************************************************************************)
LoadNext == LoadEvent \/ TabEvent

LoadSpec == Init /\ [][LoadNext]_vars

(***************************************************************************)
(* TabSpec: new_tab called with every argument of a bounded set, the tab   *)
(* events, the URL bar and the URL changes of the views.                   *)
(***************************************************************************)
\* the explicit URLs new_tab is given
TabUrls ==
    { <<"h","t","t","p",":","/","/","s",".","c">>,
      <<"h","t","t","p","s",":","/","/","c",".","c","/","c">> }

\* the labels new_tab is given
TabLabels == { NewTabLabel }

TabNext ==
    \/ \E url_arg \in TabUrls \cup {None}, tab_label \in TabLabels,
          switch \in BOOLEAN : Browser_new_tab(url_arg, tab_label, switch)
    \/ tabCloseRequested
    \/ close_current_tab_index
    \/ close_browser
    \/ \E index \in 1..Len(tabs) : current_tab_changed(index)
    \/ \E v \in 1..Len(url), u \in ChangedUrls : urlChanged(v, u)
    \/ \E s \in TypedInputs : textEdited(s)

TabSpec == Init /\ [][TabNext]_vars

(***************************************************************************)
(* TitleSpec: the loads of the initial tab, finishing with every page      *)
(* title of a bounded set.                                                 *)
(***************************************************************************)
\* the page titles of up to MaxTitle characters: a run of "a" and a run of "b"
Titles ==
    { [i \in 1..n |-> IF i <= k THEN "a" ELSE "b"] : n \in 0..MaxTitle, k \in 0..MaxTitle }

TitleNext ==
    \/ on_load_started(1)
    \/ \E page_title \in Titles : loadFinished(1, page_title)
    \/ hide_timer_fires

TitleSpec == Init /\ [][TitleNext]_vars

(***************************************************************************)
(* NormSpec: one URL-bar submission of every input of a bounded set, under *)
(* each configured search engine, followed to its navigation result.       *)
(***************************************************************************)
\* scheme prefixes a user types
Prefixes ==
    { <<>>,
      HttpPrefix,
      HttpsPrefix,
      <<"H","T","T","P",":","/","/">>,
      <<"f","t","p",":","/","/">>,
      <<"f",":">> }

BodyChars == {"c", ".", " ", ":", "/"}

Bodies == UNION {[1..n -> BodyChars] : n \in 0..MaxBody}

Inputs == {p \o b : p \in Prefixes, b \in Bodies}

\* the search engine settings of a config file: base URL and search path
Engines ==
    { <<DuckDuckGo, DefaultSearchPath>>,
      << <<"h","t","t","p",":","/","/","s",".","c">>, <<"/","s","?">> >> }

\* the search engine config file that holds the settings e; none for the
\* hardcoded ones
EngineFile(e) ==
    IF e = <<DuckDuckGo, DefaultSearchPath>> THEN NoFile
    ELSE File(<< SearchEngineKey \o <<"=">> \o e[1],
                 SearchPathKey \o <<"=">> \o e[2] >>)

NormInit ==
    /\ \E e \in Engines :
        /\ default_search_engine = e[1]
        /\ default_search_engine_search_path = e[2]
        /\ Started([NoConfigFiles EXCEPT !.search_engine = EngineFile(e)])
    /\ \E text \in Inputs : WindowInit(text)
    /\ ConfigIdle

NormNext ==
    \/ current_navigation_id = 0 /\ on_url_entered
    \/ on_url_entered_empty
    \/ \E i \in 1..Len(tasks) : NavigationTask_run(i)
    \/ \E i \in 1..Len(tasks) : NavigationTask_run_raises(i)
    \/ on_navigation_result
    \/ on_navigation_error

NormSpec == NormInit /\ [][NormNext]_vars

(***************************************************************************)
(* The config loaders: load_search_engine_config, set_favicon and          *)
(* load_shortcuts are the same loop over the lines of a file.              *)
(***************************************************************************)
\* m[key] = value
Put(m, key, value) ==
    [k \in DOMAIN m \cup {key} |-> IF k = key THEN value ELSE m[k]]

\* the iteration with rsplit for split: the line is split at its last '='
ParseLineLastEq(m, line) ==
    LET cleaned_line == Strip(line)
    IN  IF cleaned_line = <<>> \/ cleaned_line[1] = "#" THEN m
        ELSE IF ~Contains(cleaned_line, "=") THEN m
        ELSE LET eq    == RFind(cleaned_line, "=")
                 key   == Strip(Upto(cleaned_line, eq))
                 value == Strip(From(cleaned_line, eq + 1))
             IN  IF key # <<>> /\ value # <<>> THEN Put(m, key, value) ELSE m

\* one iteration of the loop, lines 37-53: the map after the line
ParseLine(m, line) ==
    LET cleaned_line == Strip(line)
    IN  IF cleaned_line = <<>> \/ cleaned_line[1] = "#" THEN m
        ELSE IF ~Contains(cleaned_line, "=") THEN m
        ELSE LET eq    == FindAny(cleaned_line, {"="})
                 key   == Strip(Upto(cleaned_line, eq))
                 value == Strip(From(cleaned_line, eq + 1))
             IN  IF key # <<>> /\ value # <<>> THEN Put(m, key, value) ELSE m

RECURSIVE ParseLines(_, _, _)
\* the loop over the lines from line i on
ParseLines(m, lines, i) ==
    IF i > Len(lines) THEN m
    ELSE ParseLines(ParseLine(m, lines[i]), lines, i + 1)

RECURSIVE ParseLinesAborting(_, _, _)
\* the loop with break for continue: it ends at the first line it rejects
ParseLinesAborting(m, lines, i) ==
    IF i > Len(lines) THEN m
    ELSE LET cleaned_line == Strip(lines[i])
             skipped  == cleaned_line = <<>> \/ cleaned_line[1] = "#"
             rejected == ~skipped /\ ParseLine(EmptyMap, lines[i]) = EmptyMap
         IN  IF rejected THEN m
             ELSE ParseLinesAborting(ParseLine(m, lines[i]), lines, i + 1)

LoadConfigAborting(file) ==
    IF ~file.exists THEN EmptyMap ELSE ParseLinesAborting(EmptyMap, file.lines, 1)

\* the loader, lines 26-56: the map it returns for a file
LoadConfig(file) ==
    IF ~file.exists THEN EmptyMap ELSE ParseLines(EmptyMap, file.lines, 1)

\* the lines config files are made of: an optional '#', a key, a separator
\* and a value, each possibly absent, blank lines, and two settings of the
\* search path, "/s?" and "/?q="
ConfigLines ==
    { lead \o key \o sep \o val :
        lead \in {<<>>, <<"#">>},
        key  \in {<<>>, <<"k">>, <<"j">>},
        sep  \in {<<>>, <<"=">>, <<" ", "=", " ">>},
        val  \in {<<>>, <<"v">>, <<"=">>} }
    \cup { <<" ">>, <<" ", "#">>, <<" ", "k", "=", "v">> }
    \cup { SearchPathKey \o <<"=">> \o <<"/", "s", "?">>,
           SearchPathKey \o <<"=">> \o DefaultSearchPath }

ConfigFiles ==
    {File(lines) : lines \in UNION {[1..n -> ConfigLines] : n \in 0..MaxLines}}

load_search_engine_config ==
    /\ cfg_pc = "start"
    /\ cfg_map' = LoadConfig(cfg_file)
    /\ cfg_pc' = "loaded"
    /\ UNCHANGED <<globals, window_vars, tab_vars, url_bar, progress_vars,
                   nav_vars, cfg_file, startup_vars, blank_submit>>

set_favicon ==
    /\ cfg_pc = "start"
    /\ cfg_map' = LoadConfig(cfg_file)
    /\ cfg_pc' = "loaded"
    /\ UNCHANGED <<globals, window_vars, tab_vars, url_bar, progress_vars,
                   nav_vars, cfg_file, startup_vars, blank_submit>>

load_shortcuts ==
    /\ cfg_pc = "start"
    /\ cfg_map' = LoadConfig(cfg_file)
    /\ cfg_pc' = "loaded"
    /\ UNCHANGED <<globals, window_vars, tab_vars, url_bar, progress_vars,
                   nav_vars, cfg_file, startup_vars, blank_submit>>

(***************************************************************************)
(* ConfigSpec: a loader applied to every config file of a bounded set, and *)
(* to a missing file.                                                      *)
(***************************************************************************)
ConfigInit ==
    /\ default_search_engine = DuckDuckGo
    /\ default_search_engine_search_path = DefaultSearchPath
    /\ WindowInit(toString(QUrl(DuckDuckGo)))
    /\ cfg_file \in ConfigFiles \cup {NoFile}
    /\ cfg_map = EmptyMap
    /\ cfg_pc = "start"
    /\ Started(NoConfigFiles)

ConfigNext ==
    \/ load_search_engine_config
    \/ set_favicon
    \/ load_shortcuts

ConfigSpec == ConfigInit /\ [][ConfigNext]_vars

(***************************************************************************)
(* The start of the program: the module-level settings of lines 153-172    *)
(* and Browser.__init__.                                                   *)
(***************************************************************************)
\* dict.get(key, default) without the default: a missing key gives ""
GetNoDefault(m, key, default) == IF key \in DOMAIN m THEN m[key] ELSE <<>>

\* dict.get(key, default)
Get(m, key, default) == IF key \in DOMAIN m THEN m[key] ELSE default

\* a config line "key=value"
Setting(key, value) == key \o <<"=">> \o value

\* the favicon config files: missing, empty, with the key, with another key
FaviconFiles ==
    { NoFile,
      File(<<>>),
      File(<< Setting(FaviconKey, <<"f",".","i","c","o">>) >>),
      File(<< Setting(<<"i","c","o","n">>, <<"f",".","i","c","o">>) >>) }

\* the search engine config files: missing, empty, with the base URL only,
\* with the base URL and the search path
SearchEngineFiles ==
    { NoFile,
      File(<<>>),
      File(<< Setting(SearchEngineKey, <<"h","t","t","p",":","/","/","s",".","c">>) >>),
      File(<< Setting(SearchEngineKey, <<"h","t","t","p",":","/","/","s",".","c">>),
              Setting(SearchPathKey, <<"/","s","?">>) >>) }

\* the shortcut config files: missing, empty, with one binding, with the two
\* other bindings
ShortcutFiles ==
    { NoFile,
      File(<<>>),
      File(<< Setting(NewTabKey, <<"C","t","r","l","+","N">>) >>),
      File(<< Setting(CloseTabKey, <<"C","t","r","l","+","D">>),
              Setting(CloseBrowserKey, <<"C","t","r","l","+","Q">>) >>) }

\* lines 153-157: browser_favicon_path
startup_favicon ==
    /\ startup_pc = "favicon"
    /\ browser_favicon_path' =
            Get(LoadConfig(config_files.favicon), FaviconKey, DefaultFavicon)
    /\ startup_pc' = "search_engine"
    /\ UNCHANGED <<globals, window_vars, tab_vars, url_bar, progress_vars,
                   nav_vars, cfg_vars, blank_submit, config_files, shortcuts,
                   shortcut_vars>>

\* lines 158-162: default_search_engine
startup_search_engine ==
    /\ startup_pc = "search_engine"
    /\ default_search_engine' =
            Get(LoadConfig(config_files.search_engine), SearchEngineKey, DuckDuckGo)
    /\ startup_pc' = "search_path"
    /\ UNCHANGED <<default_search_engine_search_path, window_vars, tab_vars,
                   url_bar, progress_vars, nav_vars, cfg_vars, blank_submit,
                   config_files, browser_favicon_path, shortcuts,
                   shortcut_vars>>

\* lines 163-167: default_search_engine_search_path
startup_search_path ==
    /\ startup_pc = "search_path"
    /\ default_search_engine_search_path' =
            Get(LoadConfig(config_files.search_engine), SearchPathKey,
                DefaultSearchPath)
    /\ startup_pc' = "shortcuts"
    /\ UNCHANGED <<default_search_engine, window_vars, tab_vars, url_bar,
                   progress_vars, nav_vars, cfg_vars, blank_submit,
                   config_files, browser_favicon_path, shortcuts,
                   shortcut_vars>>

\* lines 168-172: shortcuts
startup_shortcuts ==
    /\ startup_pc = "shortcuts"
    /\ shortcuts' = LoadConfig(config_files.shortcuts)
    /\ startup_pc' = "init"
    /\ UNCHANGED <<globals, window_vars, tab_vars, url_bar, progress_vars,
                   nav_vars, cfg_vars, blank_submit, config_files,
                   browser_favicon_path, shortcut_vars>>

\* Browser.__init__, lines 174-263: the three shortcuts (lines 177-191), the
\* navigation id, the widgets and the initial tab
Browser_init ==
    /\ startup_pc = "init"
    /\ new_tab_shortcut' = Get(shortcuts, NewTabKey, CtrlT)
    /\ close_tab_shortcut' = Get(shortcuts, CloseTabKey, CtrlW)
    /\ close_browser_shortcut' = Get(shortcuts, CloseBrowserKey, CtrlShiftW)
    /\ window_open' = TRUE
    /\ current_navigation_id' = 0
    /\ progress_visible' = FALSE
    \* the initial new_tab(), lines 246-249
    /\ tabs' = <<1>>
    /\ cur' = 1
    /\ url' = <<toString(QUrl(DuckDuckGo))>>
    /\ loading' = <<FALSE>>
    /\ label' = <<NewTabLabel>>
    /\ url_bar' = toString(QUrl(DuckDuckGo))
    /\ startup_pc' = "running"
    /\ UNCHANGED <<globals, closed_by, title_vars, progress_value,
                   hide_timers, tasks, emitted, ndelivered, cfg_vars,
                   blank_submit, config_files, browser_favicon_path,
                   shortcuts>>

(***************************************************************************)
(* StartupSpec: the start of the program from every combination of the     *)
(* config files above.  Before its assignment a global holds "".           *)
(***************************************************************************)
StartupInit ==
    /\ config_files \in [favicon : FaviconFiles,
                          search_engine : SearchEngineFiles,
                          shortcuts : ShortcutFiles]
    /\ startup_pc = "favicon"
    /\ browser_favicon_path = <<>>
    /\ default_search_engine = <<>>
    /\ default_search_engine_search_path = <<>>
    /\ shortcuts = EmptyMap
    /\ new_tab_shortcut = <<>>
    /\ close_tab_shortcut = <<>>
    /\ close_browser_shortcut = <<>>
    /\ window_open = FALSE
    /\ closed_by = ""
    /\ tabs = <<>>
    /\ cur = 0
    /\ url = <<>>
    /\ loading = <<>>
    /\ label = <<>>
    /\ title = <<>>
    /\ truncated_title = <<>>
    /\ url_bar = <<>>
    /\ progress_visible = FALSE
    /\ progress_value = -1
    /\ hide_timers = 0
    /\ current_navigation_id = 0
    /\ tasks = <<>>
    /\ emitted = <<>>
    /\ ndelivered = 0
    /\ blank_submit = <<>>
    /\ ConfigIdle

StartupNext ==
    \/ startup_favicon
    \/ startup_search_engine
    \/ startup_search_path
    \/ startup_shortcuts
    \/ Browser_init

StartupSpec == StartupInit /\ [][StartupNext]_vars

(***************************************************************************)
(* The claims.                                                             *)
(***************************************************************************)
\* the UI thread handles the next queued signal of a task, a result
ResultDelivered ==
    /\ ndelivered < Len(emitted)
    /\ ndelivered' = ndelivered + 1
    /\ NextSignal.kind = "result"

\* C1: a navigation result whose id differs from current_navigation_id when
\* it is delivered changes no view's URL (and not the URL bar), so a result
\* that changes a URL carries the id of the most recently submitted request.
C1_StaleResultDropped ==
    [][ResultDelivered =>
          /\ NextSignal.nav_id # current_navigation_id
                => (url' = url /\ url_bar' = url_bar /\ tabs' = tabs)
          /\ url' # url => NextSignal.nav_id = tasks[Len(tasks)].nav_id]_vars

\* C1 witness: the result of request 1 was delivered after a signal of a later
\* request had been emitted, and the URL it carried is the URL of no view.
C1_Witness ==
    \E i \in 1..ndelivered :
        /\ emitted[i].kind = "result"
        /\ emitted[i].nav_id < current_navigation_id
        /\ \E j \in 1..(i - 1) : emitted[j].nav_id > emitted[i].nav_id
        /\ emitted[i].url.valid
        /\ \A v \in 1..Len(url) : url[v] # toString(emitted[i].url)

\* C2: while the window is open the tab container holds at least one tab.
C2_AtLeastOneTab == window_open => Len(tabs) >= 1

\* C2 witness: the window is open with a single tab left after tabs were
\* opened and closed.
C2_Witness == window_open /\ Len(tabs) = 1 /\ Len(url) >= 2

\* C3: close_current_tab on a container of exactly one tab closes the window
\* and removes no tab.
C3_LastTabClosesWindow ==
    [][(Len(tabs) = 1 /\ \E index \in 1..Len(tabs) : close_current_tab(index))
          => (~window_open' /\ tabs' = tabs /\ cur' = cur)]_vars

\* C3 witness: close_current_tab closed the window, and the sole tab is still
\* in the container.
C3_Witness ==
    ~window_open /\ closed_by = "close_current_tab" /\ Len(tabs) = 1

\* in NormSpec: the input of the one submission, as on_url_entered strips it
SubmittedInput == Strip(url_bar)

\* in NormSpec: the task has emitted its result and the UI thread has not
\* handled it yet, so the URL bar still holds the input
ResultInFlight ==
    /\ Len(emitted) = 1
    /\ ndelivered = 0
    /\ emitted[1].kind = "result"

\* C4: for an input that parses as a valid URL with a non-empty scheme, the
\* URL of the navigation result is the URL the input parses as: nothing is
\* prepended and it is not rewritten into a search.
C4_SchemeInputUsedAsIs ==
    (/\ ResultInFlight
     /\ QUrl(SubmittedInput).valid
     /\ QUrl(SubmittedInput).scheme # <<>>)
        => emitted[1].url = QUrl(SubmittedInput)

\* C4 witness: "ftp://c.c" was submitted, an input that parses as a valid URL
\* with scheme "ftp", and the result carries a URL that starts with "https://".
C4_Witness ==
    /\ ResultInFlight
    /\ url_bar = <<"f", "t", "p", ":", "/", "/", "c", ".", "c">>
    /\ QUrl(SubmittedInput).valid
    /\ QUrl(SubmittedInput).scheme = <<"f", "t", "p">>
    /\ StartsWith(toString(emitted[1].url), HttpsPrefix)

\* C5: for an input without a scheme that contains a '.', the URL of the
\* navigation result is "https://" followed by the stripped input.
C5_DottedInputPrefixed ==
    (/\ ResultInFlight
     /\ ~HasScheme(SubmittedInput)
     /\ Contains(SubmittedInput, "."))
        => toString(emitted[1].url) = HttpsPrefix \o SubmittedInput

\* C5 witness: "c ." was submitted under the default settings, an input
\* without a scheme that contains a '.', and the result carries the search URL
\* of "https://c .".
C5_Witness ==
    /\ ResultInFlight
    /\ url_bar = <<"c", " ", ".">>
    /\ default_search_engine = DuckDuckGo
    /\ toString(emitted[1].url) =
            DuckDuckGo \o DefaultSearchPath \o HttpsPrefix \o <<"c", " ", ".">>

\* C6: for an input without a scheme and without a '.', the URL of the
\* navigation result is the configured search engine base URL, followed by
\* the configured search path, followed by the stripped input.
C6_SearchUrlBuilt ==
    (/\ ResultInFlight
     /\ ~HasScheme(SubmittedInput)
     /\ ~Contains(SubmittedInput, "."))
        => /\ emitted[1].url.valid
           /\ toString(emitted[1].url) =
                default_search_engine \o default_search_engine_search_path
                    \o SubmittedInput

\* C6 witness: " cc" was submitted under the default settings and the result
\* carries "https://duckduckgo.com/?q=cc".
C6_Witness ==
    /\ ResultInFlight
    /\ url_bar = <<" ", "c", "c">>
    /\ default_search_engine = DuckDuckGo
    /\ toString(emitted[1].url) = DuckDuckGo \o <<"/", "?", "q", "=", "c", "c">>

\* C7, in every state: the ids of the requests are strictly increasing in
\* submission order, so no two requests carry the same id.
C7_IdsIncreasing ==
    \A i, j \in 1..Len(tasks) : i < j => tasks[i].nav_id < tasks[j].nav_id

\* C7, in every step: the counter never decreases, a non-empty submission
\* increases it by exactly one and tags its request with the new value, and
\* nothing else changes it.
C7_CounterStep ==
    /\ current_navigation_id' >= current_navigation_id
    /\ on_url_entered =>
          /\ current_navigation_id' = current_navigation_id + 1
          /\ Len(tasks') = Len(tasks) + 1
          /\ tasks'[Len(tasks')].nav_id = current_navigation_id'
    /\ current_navigation_id' # current_navigation_id => Len(tasks') = Len(tasks) + 1

\* C7: current_navigation_id is a monotonically increasing counter: it never
\* decreases, each non-empty URL-bar submission increases it by exactly one,
\* and a later request carries a strictly larger id than an earlier one.
C7_MonotonicNavigationId == [](C7_IdsIncreasing) /\ [][C7_CounterStep]_vars

\* C7 witness: two requests were submitted, with ids 1 and 2.
C7_Witness ==
    /\ Len(tasks) = 2
    /\ current_navigation_id = 2
    /\ tasks[1].nav_id = 1
    /\ tasks[2].nav_id = 2

\* the signals a task has emitted, by their place in the emission order
SignalsOf(i) == {j \in 1..Len(emitted) : emitted[j].nav_id = tasks[i].nav_id}

\* C8, in every state: a task that has run has emitted exactly one signal, a
\* result or an error, tagged with its id, and a task that has not run none.
C8_OneSignalPerTask ==
    \A i \in 1..Len(tasks) :
        Cardinality(SignalsOf(i)) = IF tasks[i].done THEN 1 ELSE 0

\* C8, in every step: no task is withdrawn or reset and no emitted signal is
\* withdrawn, whatever is submitted meanwhile; and the step in which a task
\* emits changes nothing of the window.
C8_NoCancellation ==
    /\ Len(tasks') >= Len(tasks)
    /\ \A i \in 1..Len(tasks) :
          /\ tasks'[i].nav_id = tasks[i].nav_id
          /\ tasks'[i].url_str = tasks[i].url_str
          /\ tasks[i].done => tasks'[i].done
    /\ Len(emitted') >= Len(emitted)
    /\ SubSeq(emitted', 1, Len(emitted)) = emitted
    /\ emitted' # emitted =>
          UNCHANGED <<window_vars, tab_vars, url_bar, progress_vars,
                      current_navigation_id, ndelivered>>

\* C8, eventually: every task that was started runs to completion.
C8_EveryTaskCompletes ==
    \A i \in 1..MaxNav :
        (Len(tasks) >= i) ~> (Len(tasks) >= i /\ tasks[i].done)

\* C8: every started navigation task runs to completion and emits exactly
\* one signal, a result or an error, tagged with its id; a newer submission
\* cancels no task in flight, and a task changes no window state.
C8_TasksRunToCompletion ==
    /\ [](C8_OneSignalPerTask)
    /\ [][C8_NoCancellation]_vars
    /\ C8_EveryTaskCompletes

\* C8 witness: request 2 was submitted while task 1 was in flight and its task
\* finished first; task 1 still ran and emitted its one signal.
C8_Witness ==
    /\ Len(tasks) = 2
    /\ Len(emitted) = 2
    /\ emitted[1].nav_id = 2
    /\ emitted[2].nav_id = 1
    /\ tasks[1].done

\* C9: a load-start, load-progress or load-finish of a view that is not the
\* focused view leaves the progress indicator's value, its visibility and
\* the pending hide timers unchanged.
C9_BackgroundLoadIgnored ==
    [][\A v \in 1..Len(url) :
          (/\ v # currentWidget
           /\ \/ on_load_started(v)
              \/ \E p \in Percents : on_load_progress(v, p)
              \/ on_load_finished(v))
             => UNCHANGED progress_vars]_vars

\* C9 witness: a view that is not focused is loading and the indicator was
\* never touched: a view's load-start while it is focused sets the value to 0.
C9_Witness ==
    /\ \E v \in 1..Len(url) : loading[v] /\ v # currentWidget
    /\ progress_value = -1
    /\ ~progress_visible
    /\ hide_timers = 0

\* the place of the first '=' of a stripped line that has one
FirstEq(c) == CHOOSE i \in 1..Len(c) : c[i] = "=" /\ \A j \in 1..(i - 1) : c[j] # "="

\* the stripped key and the stripped value of a line that contains '='
LineKey(line) == Strip(SubSeq(Strip(line), 1, FirstEq(Strip(line)) - 1))

LineValue(line) ==
    Strip(SubSeq(Strip(line), FirstEq(Strip(line)) + 1, Len(Strip(line))))

\* a line that is not blank, is no '#' comment, contains '=' and has a
\* non-empty stripped key and a non-empty stripped value
GoodLine(line) ==
    /\ Strip(line) # <<>>
    /\ Strip(line)[1] # "#"
    /\ \E i \in 1..Len(Strip(line)) : Strip(line)[i] = "="
    /\ LineKey(line) # <<>>
    /\ LineValue(line) # <<>>

\* C10: the map a loader returns for a file holds exactly the keys of the
\* file's good lines, each with the value of its last good line, wherever
\* the other lines (blank, comment, without '=', with an empty key or value)
\* stand in the file.  A comment is a line whose first non-blank character
\* is '#'.
C10_BadLinesSkipped ==
    (cfg_pc = "loaded" /\ cfg_file.exists) =>
        LET lines == cfg_file.lines
            good  == {i \in 1..Len(lines) : GoodLine(lines[i])}
        IN  /\ DOMAIN cfg_map = {LineKey(lines[i]) : i \in good}
            /\ \A i \in good :
                  (\A j \in good : j > i => LineKey(lines[j]) # LineKey(lines[i]))
                     => cfg_map[LineKey(lines[i])] = LineValue(lines[i])

\* C10 witness: a line without '=' and a line with an empty value stand before
\* a good line, and the good line's pair is loaded.
C10_Witness ==
    /\ cfg_pc = "loaded"
    /\ cfg_file.exists
    /\ \E i, j \in 1..Len(cfg_file.lines) :
          /\ i < j
          /\ cfg_file.lines[i] \in {<<"k">>, <<"k", "=">>}
          /\ cfg_file.lines[j] = <<" ", "k", "=", "v">>
    /\ DOMAIN cfg_map = {<<"k">>}
    /\ cfg_map[<<"k">>] = <<"v">>

\* the setting of a key is missing: the file does not exist or holds no good
\* line with the key
Missing(file, key) == ~file.exists \/ key \notin DOMAIN LoadConfig(file)

\* C11: once the program has started, a setting whose config file or key is
\* missing has its hardcoded value - search engine "https://duckduckgo.com",
\* search path "/?q=", favicon "browser/assets/icons/favicons/favicon.ico",
\* shortcuts Ctrl+T, Ctrl+W and Ctrl+Shift+W - and the shortcut map loaded
\* from a file that does not exist is empty.
C11_MissingConfigDefaults ==
    startup_pc = "running" =>
        /\ window_open
        /\ ~config_files.shortcuts.exists => shortcuts = EmptyMap
        /\ Missing(config_files.favicon, FaviconKey)
                => browser_favicon_path = DefaultFavicon
        /\ Missing(config_files.search_engine, SearchEngineKey)
                => default_search_engine = DuckDuckGo
        /\ Missing(config_files.search_engine, SearchPathKey)
                => default_search_engine_search_path = DefaultSearchPath
        /\ Missing(config_files.shortcuts, NewTabKey)
                => new_tab_shortcut = CtrlT
        /\ Missing(config_files.shortcuts, CloseTabKey)
                => close_tab_shortcut = CtrlW
        /\ Missing(config_files.shortcuts, CloseBrowserKey)
                => close_browser_shortcut = CtrlShiftW

\* C11 witness: the program has started with no favicon file, a search engine
\* file without the search path and a shortcut file without the new-tab key,
\* and the settings the files do give are in effect.
C11_Witness ==
    /\ startup_pc = "running"
    /\ ~config_files.favicon.exists
    /\ config_files.search_engine.exists
    /\ default_search_engine = <<"h","t","t","p",":","/","/","s",".","c">>
    /\ default_search_engine_search_path = DefaultSearchPath
    /\ browser_favicon_path = DefaultFavicon
    /\ new_tab_shortcut = CtrlT
    /\ close_tab_shortcut = <<"C","t","r","l","+","D">>


\* C12: the title update_tab_title truncated last is the title it read when
\* that has at most 15 characters, and otherwise the first 15 characters of
\* it followed by "..."; it is never longer than 18 characters.
C12_TitleTruncated ==
    title # <<>> =>
        /\ Len(title) <= 15 => truncated_title = title
        /\ Len(title) > 15 =>
              /\ Len(truncated_title) = 18
              /\ \A i \in 1..15 : truncated_title[i] = title[i]
              /\ \A i \in 16..18 : truncated_title[i] = "."
        /\ Len(truncated_title) <= 18

\* C12 witness: a title of 20 characters was truncated to a label of 18.
C12_Witness ==
    /\ Len(title) = 20
    /\ Len(truncated_title) = 18
    /\ label[1] = truncated_title

\* the views that are in a tab of the container
InContainer == {tabs[i] : i \in 1..Len(tabs)}

\* C13: when a view's load finishes and the view is in a tab, the label of its
\* tab becomes the truncated page title if the title is not blank and the
\* view's URL otherwise, and no other label changes; when the view is in no
\* tab, no label changes.
C13_LabelAfterLoad ==
    [][\A v \in 1..Len(url) : \A page_title \in PageTitles :
          loadFinished(v, page_title) =>
             IF v \in InContainer
             THEN /\ label'[v] = IF page_title # <<>>
                                 THEN truncate_title(page_title)
                                 ELSE url[v]
                  /\ \A w \in 1..Len(url) : w # v => label'[w] = label[w]
             ELSE label' = label]_vars

\* C13 witness: of two tabs, one is labelled with its URL after a load with a
\* blank title and the other with a title of 16 characters cut to 15 and
\* "...".
C13_Witness ==
    /\ Len(tabs) = 2
    /\ label[tabs[1]] = url[tabs[1]]
    /\ label[tabs[2]] = [i \in 1..18 |-> IF i <= 15 THEN "a" ELSE "."]
    /\ ~loading[tabs[1]]
    /\ ~loading[tabs[2]]

\* the UI thread handles the next queued signal of a task, an error
ErrorDelivered ==
    /\ ndelivered < Len(emitted)
    /\ ndelivered' = ndelivered + 1
    /\ NextSignal.kind = "error"

\* C14: handling a task's error signal, whether its id is the current one or
\* a stale one, leaves every view's URL, the URL bar, the progress indicator,
\* the tabs with their labels, the focused tab, the window and
\* current_navigation_id unchanged.
C14_ErrorOnlyLogged ==
    [][ErrorDelivered =>
          UNCHANGED <<url, url_bar, progress_vars, tabs, cur, label,
                      window_vars, current_navigation_id>>]_vars

\* C14 witness: two requests were submitted and both tasks failed; the error
\* of request 2 was handled first, so the error of request 1 was stale when
\* it was handled, and the URL bar still holds what the user typed.
C14_Witness ==
    /\ ndelivered = 2
    /\ emitted[1].kind = "error" /\ emitted[1].nav_id = 2
    /\ emitted[2].kind = "error" /\ emitted[2].nav_id = 1
    /\ current_navigation_id = 2
    /\ url_bar = <<"c", "a", "t", "s">>

\* the UI thread handles a result whose id is current_navigation_id
ResultAccepted ==
    /\ ResultDelivered
    /\ NextSignal.nav_id = current_navigation_id

\* C17: an accepted navigation result sets the URL of the view focused when
\* the result is delivered to the result's URL, and leaves the URL of every
\* other view, the tabs, the focused tab and current_navigation_id unchanged.
C17_ResultGoesToFocusedTab ==
    [][ResultAccepted =>
          /\ currentWidget # 0
          /\ url'[currentWidget] = toString(NextSignal.url)
          /\ \A v \in 1..Len(url) : v # currentWidget => url'[v] = url[v]
          /\ Len(url') = Len(url)
          /\ UNCHANGED <<tabs, cur, current_navigation_id>>]_vars

\* C17 witness: "cats" was submitted, its result was accepted and set the URL
\* of the second tab, the focused one, while the first tab kept its URL.
C17_Witness ==
    /\ Len(tabs) = 2
    /\ cur = 2
    /\ ndelivered = 1
    /\ emitted[1].kind = "result"
    /\ emitted[1].nav_id = current_navigation_id
    /\ url[tabs[2]] = DuckDuckGo \o DefaultSearchPath \o <<"c", "a", "t", "s">>
    /\ url[tabs[1]] = DuckDuckGo

\* the view of the last tab
LastView(ts) == ts[Len(ts)]

\* C15: new_tab adds one tab, the last one, whose view is at the explicit URL
\* when one is given and at the default URL otherwise; the tabs there were
\* and the URLs of their views are unchanged; the new tab is the focused one
\* when switch is true, and with switch false and a container that was not
\* empty the focused tab stays the focused one.
C15_NewTabAddsOneTab ==
    [][\A url_arg \in TabUrls \cup {None} : \A tab_label \in TabLabels :
       \A switch \in BOOLEAN :
          Browser_new_tab(url_arg, tab_label, switch) =>
             /\ Len(tabs') = Len(tabs) + 1
             /\ SubSeq(tabs', 1, Len(tabs)) = tabs
             /\ LastView(tabs') \notin InContainer
             /\ url'[LastView(tabs')] = IF url_arg = None THEN DuckDuckGo
                                        ELSE url_arg
             /\ \A v \in 1..Len(url) : url'[v] = url[v]
             /\ switch => cur' = Len(tabs')
             /\ (~switch /\ Len(tabs) > 0) => cur' = cur]_vars

\* C15 witness: a tab was opened at an explicit URL with switch false: the
\* first tab is still the focused one and the URL bar still shows its URL.
C15_Witness ==
    /\ Len(tabs) = 2
    /\ cur = 1
    /\ url[tabs[2]] = <<"h","t","t","p",":","/","/","s",".","c">>
    /\ url[tabs[1]] = DuckDuckGo
    /\ url_bar = DuckDuckGo

\* C16: close_current_tab with the index of a tab, in a container of more than
\* one tab, removes the tab at that index and no other: the tabs before it
\* keep their places, the tabs after it move up by one, every view keeps its
\* URL and the window stays open.
C16_CloseRemovesThatTab ==
    [][\A index \in 1..Len(tabs) :
          (Len(tabs) > 1 /\ close_current_tab(index)) =>
             /\ Len(tabs') = Len(tabs) - 1
             /\ \A i \in 1..(index - 1) : tabs'[i] = tabs[i]
             /\ \A i \in index..(Len(tabs) - 1) : tabs'[i] = tabs[i + 1]
             /\ url' = url
             /\ window_open']_vars

\* C16 witness: the first of two tabs was closed while the second was the
\* focused one; the second is now the only tab, and the window is open.
C16_Witness ==
    /\ window_open
    /\ Len(url) = 2
    /\ tabs = <<2>>
    /\ cur = 1
    /\ url[2] = <<"h","t","t","p",":","/","/","s",".","c">>
    /\ url_bar = url[2]

\* C19: when a view reports a URL change, the URL bar becomes the new URL if
\* the view is the focused one and is unchanged otherwise.
C19_UrlChangeOfFocusedTabOnly ==
    [][\A v \in 1..Len(url) : \A u \in ChangedUrls :
          urlChanged(v, u) =>
             /\ v = currentWidget => url_bar' = u
             /\ v # currentWidget => url_bar' = url_bar]_vars

\* C19 witness: of two tabs, the one that is not focused has moved to another
\* URL, and the URL bar shows the URL of the focused one.
C19_Witness ==
    /\ Len(tabs) = 2
    /\ \E i \in 1..2 :
          /\ i # cur
          /\ url[tabs[i]] \in ChangedUrls
          /\ url_bar = url[tabs[cur]]
          /\ url_bar \notin ChangedUrls

\* C20: in every step that changes the focused tab - a switch by the user,
\* new_tab with switch true, the closing of a tab - the URL bar becomes the URL
\* of the newly focused tab's view, and empty when there is no tab at the new
\* index.
C20_UrlBarFollowsFocus ==
    [][(cur' # cur \/ currentWidget' # currentWidget) =>
          url_bar' = IF cur' \in 1..Len(tabs') THEN url'[tabs'[cur']] ELSE <<>>]_vars

\* C20 witness: the user typed into the URL bar of the second tab and closed
\* that tab; the first tab is focused and the URL bar shows its URL.
C20_Witness ==
    /\ window_open
    /\ Len(url) = 2
    /\ tabs = <<1>>
    /\ cur = 1
    /\ url[2] # url[1]
    /\ url_bar = url[1]

\* the last thing written to the indicator is the 0 of a load-start of the
\* focused view - which showed it - and the focused view is loading: no
\* load-finish of a focused view has been handled since that load-start
FocusedLoadShown ==
    /\ progress_value = 0
    /\ currentWidget # 0
    /\ loading[currentWidget]

\* C18: after a load-start of the focused view has shown the indicator, and
\* until a load-finish of the focused view is handled, the indicator is
\* visible; the hide scheduled by an earlier load-finish does not hide it.
C18_VisibleDuringLoad == FocusedLoadShown => progress_visible

\* C18 witness: the focused view finished a load and started the next one,
\* and the timer of the finished load has fired: the view is loading, no timer
\* is pending and the indicator is hidden.
C18_Witness ==
    /\ FocusedLoadShown
    /\ Len(url) = 1
    /\ hide_timers = 0
    /\ ~progress_visible

\* on_url_entered returned at line 397: the URL bar was empty or blank
BlankReturn == blank_submit' # blank_submit

\* the latest blank return came after the latest request was submitted, and
\* the signal handled next is that request's
BlankReturnInFlight ==
    /\ Len(tasks) > 0
    /\ blank_submit # <<>>
    /\ blank_submit[1] = Len(tasks)
    /\ NextSignal.nav_id = tasks[Len(tasks)].nav_id

\* C21: the return key in an empty or whitespace-only URL bar changes
\* nothing: current_navigation_id is not incremented and no task is started.
\* So the request that was in flight is not superseded: when its result is
\* delivered it still carries the current id and is loaded into the focused
\* view.
C21_BlankSubmitIsNoOp ==
    [][/\ BlankReturn =>
            /\ current_navigation_id' = current_navigation_id
            /\ tasks' = tasks
            /\ emitted' = emitted
            /\ ndelivered' = ndelivered
            /\ url' = url
            /\ url_bar' = url_bar
       /\ (ResultDelivered /\ BlankReturnInFlight) =>
            /\ NextSignal.nav_id = current_navigation_id
            /\ currentWidget # 0
            /\ url'[currentWidget] = toString(NextSignal.url)]_vars

\* C21 witness: the return key was pressed in a blank URL bar after the
\* latest request was submitted and before its result was handled, and the
\* result was loaded into the focused view.
C21_Witness ==
    /\ ndelivered = 1
    /\ Len(tasks) = 1
    /\ emitted[1].kind = "result"
    /\ blank_submit = <<1, 0>>
    /\ current_navigation_id = emitted[1].nav_id
    /\ url[currentWidget] = toString(emitted[1].url)
    /\ url[currentWidget] # toString(QUrl(DuckDuckGo))

\* the stripped line c has its first '=' at e
FirstEqAt(c, e) ==
    /\ e \in 1..Len(c)
    /\ c[e] = "="
    /\ \A j \in 1..(e - 1) : c[j] # "="

\* the stripped text before place e of c, and the stripped text after it
TextBefore(c, e) == Strip(SubSeq(c, 1, e - 1))

TextAfter(c, e) == Strip(SubSeq(c, e + 1, Len(c)))

\* line is a valid line whose key is key: no comment, with a first '=' that
\* has key before it and something after it
ValidFor(line, key) ==
    /\ key # <<>>
    /\ Strip(line) # <<>>
    /\ Strip(line)[1] # "#"
    /\ \E e \in 1..Len(Strip(line)) :
          /\ FirstEqAt(Strip(line), e)
          /\ TextBefore(Strip(line), e) = key
          /\ TextAfter(Strip(line), e) # <<>>

\* C22: a config line is split at its first '=' only: the key is the
\* stripped text before it and the value the whole stripped text after it,
\* further '=' included; of several valid lines with one key the loader
\* keeps the value of the last.
C22_SplitAtFirstEq ==
    (cfg_pc = "loaded" /\ cfg_file.exists) =>
        \A i \in 1..Len(cfg_file.lines) :
            \A e \in 1..Len(Strip(cfg_file.lines[i])) :
                LET c   == Strip(cfg_file.lines[i])
                    key == TextBefore(c, e)
                IN  (/\ FirstEqAt(c, e)
                     /\ ValidFor(cfg_file.lines[i], key)
                     /\ \A j \in (i + 1)..Len(cfg_file.lines) :
                            ~ValidFor(cfg_file.lines[j], key))
                        => /\ key \in DOMAIN cfg_map
                           /\ cfg_map[key] = TextAfter(c, e)

\* C22 witness: the search path is set to "/s?" and then to "/?q=", and the
\* loader returns "/?q=" for it.
C22_Witness ==
    /\ cfg_pc = "loaded"
    /\ cfg_file.exists
    /\ cfg_file.lines = << SearchPathKey \o <<"=">> \o <<"/", "s", "?">>,
                           SearchPathKey \o <<"=">> \o DefaultSearchPath >>
    /\ DOMAIN cfg_map = {SearchPathKey}
    /\ cfg_map[SearchPathKey] = <<"/", "?", "q", "=">>
====
